---- MODULE Spec2Model ----
(***************************************************************************)
(* Left-to-right evaluator of held-out documents under a trained topic     *)
(* model (src/tomer/src/left_to_right_evaluator.cpp).                       *)
(*                                                                         *)
(* Doubles are modelled as exact rationals <<numerator, denominator>> in   *)
(* lowest terms with a positive denominator; a zero denominator stands for *)
(* the non-finite results of IEEE division by zero (<<0,0>> is NaN,        *)
(* <<1,0>> and <<-1,0>> the infinities).  Vectors are functions on 0..n-1. *)
(***************************************************************************)
EXTENDS Integers, Sequences, FiniteSets, TLC

----------------------------------------------------------------------------
(* Bounds of the model *)

\* number of topics of the trained model
NTopics == 2

\* longest document handed to get_word_probabilities and evaluate
MaxDocLen == 3

\* largest local count of a topic in a free sequence of add / remove calls
MaxLocalCount == 2

----------------------------------------------------------------------------
(* Exact arithmetic on doubles *)

Abs(x) == IF x < 0 THEN -x ELSE x

Sign(x) == IF x < 0 THEN -1 ELSE IF x > 0 THEN 1 ELSE 0

RECURSIVE GCD(_, _)
GCD(a, b) == IF b = 0 THEN a ELSE GCD(b, a % b)

\* the double n/d
Rat(n, d) ==
  IF d = 0 THEN <<Sign(n), 0>>
  ELSE LET g == GCD(Abs(n), Abs(d))
           s == IF d < 0 THEN -1 ELSE 1
       IN  <<(s * n) \div g, (s * d) \div g>>

FromInt(n) == <<n, 1>>

Zero == <<0, 1>>

NaN == <<0, 0>>

IsFinite(x) == x[2] # 0

IsNaN(x) == x = NaN

LCM(a, b) == (a \div GCD(a, b)) * b

\* x + y; a NaN operand, or infinities of opposite sign, give NaN
RAdd(x, y) ==
  IF IsFinite(x) /\ IsFinite(y)
  THEN LET l == LCM(x[2], y[2])
       IN  Rat(x[1] * (l \div x[2]) + y[1] * (l \div y[2]), l)
  ELSE IF IsNaN(x) \/ IsNaN(y) THEN NaN
  ELSE IF ~IsFinite(x) /\ ~IsFinite(y) /\ x # y THEN NaN
  ELSE IF IsFinite(x) THEN y ELSE x

RNeg(x) == <<-x[1], x[2]>>

RSub(x, y) == RAdd(x, RNeg(y))

\* x * y; 0 * infinity is NaN
RMul(x, y) ==
  IF IsFinite(x) /\ IsFinite(y)
  THEN LET g1 == GCD(Abs(x[1]), y[2])
           g2 == GCD(Abs(y[1]), x[2])
       IN  Rat((x[1] \div g1) * (y[1] \div g2), (x[2] \div g2) * (y[2] \div g1))
  ELSE <<Sign(x[1]) * Sign(y[1]), 0>>

\* x / y; 0/0 is NaN, a nonzero value over 0 is an infinity
RDiv(x, y) ==
  IF IsFinite(x) /\ IsFinite(y)
  THEN IF y[1] = 0 THEN <<Sign(x[1]), 0>>
       ELSE RMul(x, Rat(y[2], y[1]))
  ELSE IF IsNaN(x) \/ IsNaN(y) THEN NaN
  ELSE IF ~IsFinite(x) /\ ~IsFinite(y) THEN NaN
  ELSE IF IsFinite(x) THEN Zero ELSE <<Sign(x[1]) * (IF y[1] < 0 THEN -1 ELSE 1), 0>>

\* x < y; every comparison with NaN is false
RLt(x, y) ==
  IF IsNaN(x) \/ IsNaN(y) THEN FALSE
  ELSE IF IsFinite(x) /\ IsFinite(y)
  THEN LET l == LCM(x[2], y[2])
       IN  x[1] * (l \div x[2]) < y[1] * (l \div y[2])
  ELSE IF ~IsFinite(x) /\ ~IsFinite(y) THEN x[1] < y[1]
  ELSE IF IsFinite(x) THEN y[1] > 0 ELSE x[1] < 0

RGt(x, y) == RLt(y, x)

\* x <= y
RLe(x, y) == ~IsNaN(x) /\ ~IsNaN(y) /\ ~RLt(y, x)

----------------------------------------------------------------------------
(* Vectors *)

Topics == 0 .. NTopics - 1

\* a vector of n copies of v: IntVector(n), DoubleVector(n)
Vec(n, v) == [i \in 0 .. n - 1 |-> v]

\* vector.size()
Size(v) == Cardinality(DOMAIN v)

\* the value sample_new_topic starts from and returns when no scan selects
NoTopic == -1

\* stands for the std::out_of_range a failing vector.at() throws
OutOfRange == -2

----------------------------------------------------------------------------
(* State *)

VARIABLES
  alpha_,                \* per-topic prior weights
  beta_,                 \* word-topic prior
  topic_counts_,         \* per-topic global token counts
  type_topic_counts_,    \* per-word topic-count profiles
  alpha_sum_,
  beta_sum_,
  smoothing_only_mass_,
  cached_coefficients_,  \* shared scratch, one coefficient per topic
  sampler_,              \* [seq, pos]: the uniform source; an empty seq is a
                         \* true random source, otherwise a stub repeating seq
  state,                 \* the LocalState of the running get_word_probabilities
  gw,                    \* the locals of get_word_probabilities and its position
  ev                     \* the locals of evaluate and its position

modelVars == <<alpha_, beta_, topic_counts_, type_topic_counts_,
               alpha_sum_, beta_sum_, smoothing_only_mass_>>

vars == <<alpha_, beta_, topic_counts_, type_topic_counts_, alpha_sum_,
          beta_sum_, smoothing_only_mass_, cached_coefficients_, sampler_,
          state, gw, ev>>

----------------------------------------------------------------------------
(* Inputs the model draws from *)

Tenth == Rat(1, 10)

\* constructor arguments alpha, beta, topic_counts
Params ==
  { [alpha |-> Vec(NTopics, Tenth), beta |-> Rat(1, 100),
     topic_counts |-> Vec(NTopics, 5)],
    [alpha |-> [t \in Topics |-> Rat(t + 1, 2)], beta |-> FromInt(1),
     topic_counts |-> [t \in Topics |-> t + 1]],
    [alpha |-> Vec(NTopics, Zero), beta |-> Rat(1, 2),
     topic_counts |-> [t \in Topics |-> t + 1]],
    [alpha |-> [t \in Topics |-> IF t = 0 THEN Zero ELSE Tenth],
     beta |-> Rat(1, 100), topic_counts |-> Vec(NTopics, 5)],
    [alpha |-> Vec(NTopics, Tenth), beta |-> Zero,
     topic_counts |-> Vec(NTopics, 5)] }

\* a word seen 3 times in topic 0 only: one entry, then the sentinel
ProfileOne == [t \in Topics |-> IF t = 0 THEN 3 ELSE 0]

\* a word seen in every topic: descending counts, no sentinel
ProfileAll == [t \in Topics |-> NTopics - t]

\* a word never seen
ProfileNone == [t \in Topics |-> 0]

\* a profile with entries behind its first zero
ProfileBehind == [t \in Topics |-> IF t = 0 THEN 0 ELSE 2]

\* constructor argument type_topic_counts: one profile per vocabulary word
Vocabularies ==
  { Vec(1, ProfileOne),
    [w \in 0 .. 1 |-> IF w = 0 THEN ProfileAll ELSE ProfileOne],
    [w \in 0 .. 1 |-> IF w = 0 THEN ProfileBehind ELSE ProfileNone] }

\* token ids: -1 is never a word, 1 is a word of the two-word vocabularies only
Tokens == {-1, 0, 1}

\* documents of a given length
DocsOfLen(n) == [0 .. n - 1 -> Tokens]

Documents == UNION { DocsOfLen(n) : n \in 0 .. MaxDocLen }

\* values the uniform source may return, all in [0,1)
Draws == { Zero, Rat(1, 2), Rat(9, 10) }

----------------------------------------------------------------------------
(* LeftToRightEvaluator::LeftToRightEvaluator *)

RECURSIVE AccumulateFrom(_, _, _)
AccumulateFrom(v, i, acc) ==
  IF i >= Size(v) THEN acc ELSE AccumulateFrom(v, i + 1, RAdd(acc, v[i]))

\* std::accumulate(alpha.cbegin(), alpha.cend(), 0.0)
Accumulate(v) == AccumulateFrom(v, 0, Zero)

\* topic_counts_.at(topic) + beta_sum_, from the constructor's arguments
DenomOf(tc, bsum, topic) == RAdd(FromInt(tc[topic]), bsum)

\* a slip: the smoothing-only mass is never accumulated
SmoothingFrom_none(alpha, beta, tc, bsum, topic, acc) == acc

RECURSIVE SmoothingFrom(_, _, _, _, _, _)
SmoothingFrom(alpha, beta, tc, bsum, topic, acc) ==
  IF topic >= NTopics THEN acc
  ELSE SmoothingFrom(alpha, beta, tc, bsum, topic + 1,
         RAdd(acc, RDiv(RMul(alpha[topic], beta), DenomOf(tc, bsum, topic))))

\* the cached coefficient of a topic with local count zero
SmoothingCoefficient(alpha, tc, bsum, topic) ==
  RDiv(alpha[topic], DenomOf(tc, bsum, topic))

\* LocalState as get_word_probabilities sets it up for a document
FreshState(doc_length) ==
  [ doc_topics |-> Vec(doc_length, 0),
    topic_counts |-> Vec(NTopics, 0),
    topic_index |-> Vec(NTopics, 0),
    dense_index |-> 0,
    non_zero_topics |-> 0,
    topic_beta_mass |-> Zero,
    topic_term_mass |-> Zero,
    topic_term_scores |-> Vec(NTopics, Zero),
    type |-> 0,
    type_topic_counts |-> Vec(0, 0) ]

\* the locals of get_word_probabilities before any call
IdleCall ==
  [ pc |-> "idle", types |-> Vec(0, 0), resampling |-> FALSE,
    word_probabilities |-> Vec(0, Zero), tokens_so_far |-> 0,
    limit |-> 0, position |-> 0, old_topic |-> 0, new_topic |-> 0 ]

\* the locals of evaluate before any call; total_log_likelihood is kept as the
\* sequence of the documents' doc_log_likelihood, each the sequence of the
\* sums whose log(sum) - log_n_particles it adds up; run, passes and first
\* record what the runs of evaluate produced
IdleEval ==
  [ pc |-> "idle", types |-> Vec(0, Vec(0, 0)), n_particles |-> 0,
    resampling |-> FALSE, particle_probabilities |-> Vec(0, Vec(0, Zero)),
    doc_log_likelihood |-> <<>>, total_log_likelihood |-> <<>>,
    max_len |-> 0, i |-> 0, particle |-> 0,
    run |-> 0, start_pos |-> 0, passes |-> <<>>, first |-> <<>> ]

\* the evaluator as the constructor leaves it
Constructed(p, ttc) ==
  /\ alpha_ = p.alpha
  /\ beta_ = p.beta
  /\ topic_counts_ = p.topic_counts
  /\ type_topic_counts_ = ttc
  /\ alpha_sum_ = Accumulate(p.alpha)
  /\ beta_sum_ = RMul(FromInt(NTopics), p.beta)
  /\ smoothing_only_mass_ =
       SmoothingFrom(p.alpha, p.beta, p.topic_counts,
                     RMul(FromInt(NTopics), p.beta), 0, Zero)
  /\ cached_coefficients_ =
       [t \in Topics |->
          SmoothingCoefficient(p.alpha, p.topic_counts,
                               RMul(FromInt(NTopics), p.beta), t)]

----------------------------------------------------------------------------
(* The dense active-topic index *)

\* the backward scan of maintain_dense_index_addition: shifts the entries
\* above topic one slot right and stores topic in the slot it stops at
RECURSIVE InsertScan(_, _, _)
InsertScan(topic_index, dense_index, topic) ==
  IF dense_index > 0 /\ topic_index[dense_index - 1] > topic
  THEN InsertScan([topic_index EXCEPT ![dense_index] = topic_index[dense_index - 1]],
                  dense_index - 1, topic)
  ELSE [topic_index |-> [topic_index EXCEPT ![dense_index] = topic],
        dense_index |-> dense_index]

\* a slip: the new topic is appended behind the active entries, unsorted
maintain_dense_index_addition_append(s, topic) ==
  IF s.topic_counts[topic] = 1
  THEN [s EXCEPT !.topic_index[s.non_zero_topics] = topic,
                 !.dense_index = s.non_zero_topics,
                 !.non_zero_topics = s.non_zero_topics + 1]
  ELSE s

maintain_dense_index_addition(s, topic) ==
  IF s.topic_counts[topic] = 1
  THEN LET r == InsertScan(s.topic_index, s.non_zero_topics, topic)
       IN  [s EXCEPT !.topic_index = r.topic_index,
                     !.dense_index = r.dense_index,
                     !.non_zero_topics = s.non_zero_topics + 1]
  ELSE s

\* the forward scan for topic; Size(topic_index) when at() runs off the end
RECURSIVE FindScan(_, _, _)
FindScan(topic_index, dense_index, topic) ==
  IF dense_index >= Size(topic_index) THEN dense_index
  ELSE IF topic_index[dense_index] # topic
       THEN FindScan(topic_index, dense_index + 1, topic)
       ELSE dense_index

\* shift all remaining dense indices to the left
RECURSIVE ShiftLeftScan(_, _, _)
ShiftLeftScan(topic_index, dense_index, non_zero_topics) ==
  IF dense_index < non_zero_topics
  THEN ShiftLeftScan(
         IF dense_index < Size(topic_index) - 1
         THEN [topic_index EXCEPT ![dense_index] = topic_index[dense_index + 1]]
         ELSE topic_index,
         dense_index + 1, non_zero_topics)
  ELSE [topic_index |-> topic_index, dense_index |-> dense_index]

\* whether the deletion scan runs off the index (at() throws)
EliminationThrows(s, topic) ==
  /\ s.topic_counts[topic] = 0
  /\ FindScan(s.topic_index, 0, topic) >= Size(s.topic_index)

\* a slip: the active count is decremented but the entries are not shifted
maintain_dense_index_elimination_no_shift(s, topic) ==
  IF s.topic_counts[topic] = 0
  THEN [s EXCEPT !.dense_index = FindScan(s.topic_index, 0, topic),
                 !.non_zero_topics = s.non_zero_topics - 1]
  ELSE s

maintain_dense_index_elimination(s, topic) ==
  IF s.topic_counts[topic] = 0
  THEN LET found == FindScan(s.topic_index, 0, topic)
           r == ShiftLeftScan(s.topic_index, found, s.non_zero_topics)
       IN  IF found >= Size(s.topic_index)
           THEN [s EXCEPT !.dense_index = found]
           ELSE [s EXCEPT !.topic_index = r.topic_index,
                          !.dense_index = r.dense_index,
                          !.non_zero_topics = s.non_zero_topics - 1]
  ELSE s

----------------------------------------------------------------------------
(* The mass and coefficient maintainer *)

\* topic_counts_.at(topic) + beta_sum_
Denom(topic) == RAdd(FromInt(topic_counts_[topic]), beta_sum_)

\* beta_ * state.topic_counts.at(topic) / denom
BetaContribution(s, topic) ==
  RDiv(RMul(beta_, FromInt(s.topic_counts[topic])), Denom(topic))

\* a slip: the coefficient is recomputed without the local count
Coefficient_prior_only(s, topic) == RDiv(alpha_[topic], Denom(topic))

\* (alpha_.at(topic) + state.topic_counts.at(topic)) / denom
Coefficient(s, topic) ==
  RDiv(RAdd(alpha_[topic], FromInt(s.topic_counts[topic])), Denom(topic))

\* the index routine an add or a remove ends with
MaintainIndex(s, topic, incr) ==
  IF incr THEN maintain_dense_index_addition(s, topic)
  ELSE maintain_dense_index_elimination(s, topic)

\* a slip: the index routine runs before the count is updated
add_or_remove_topic_and_update_state_and_coefficients_index_first(s, cached, topic, incr) ==
  LET s0 == MaintainIndex(s, topic, incr)
      s1 == [s0 EXCEPT !.topic_beta_mass =
                         RSub(s0.topic_beta_mass, BetaContribution(s0, topic))]
      s2 == [s1 EXCEPT !.topic_counts[topic] =
                         IF incr THEN @ + 1 ELSE @ - 1]
      s3 == [s2 EXCEPT !.topic_beta_mass =
                         RAdd(s2.topic_beta_mass, BetaContribution(s2, topic))]
  IN  [ state |-> s3,
        cached |-> [cached EXCEPT ![topic] = Coefficient(s3, topic)] ]

\* the local state and the coefficient cache after one unit of topic is
\* added (incr) or removed
add_or_remove_topic_and_update_state_and_coefficients(s, cached, topic, incr) ==
  LET s1 == [s EXCEPT !.topic_beta_mass =
                        RSub(s.topic_beta_mass, BetaContribution(s, topic))]
      s2 == [s1 EXCEPT !.topic_counts[topic] =
                         IF incr THEN @ + 1 ELSE @ - 1]
      s3 == [s2 EXCEPT !.topic_beta_mass =
                         RAdd(s2.topic_beta_mass, BetaContribution(s2, topic))]
  IN  [ state |-> MaintainIndex(s3, topic, incr),
        cached |-> [cached EXCEPT ![topic] = Coefficient(s3, topic)] ]

\* a slip: the topic is counted but not written to doc_topics
add_topic_and_update_state_and_coefficients_unrecorded(s, cached, topic, position) ==
  add_or_remove_topic_and_update_state_and_coefficients(s, cached, topic, TRUE)

add_topic_and_update_state_and_coefficients(s, cached, topic, position) ==
  add_or_remove_topic_and_update_state_and_coefficients(
    [s EXCEPT !.doc_topics[position] = topic], cached, topic, TRUE)

remove_topic_and_update_state_and_coefficients(s, cached, topic) ==
  add_or_remove_topic_and_update_state_and_coefficients(s, cached, topic, FALSE)

\* whether a remove of topic ends in the deletion scan throwing
RemoveThrows(s, topic) ==
  EliminationThrows([s EXCEPT !.topic_counts[topic] = @ - 1], topic)

----------------------------------------------------------------------------
(* The topic-score updater *)

RECURSIVE ScoreScan(_, _, _)
ScoreScan(s, cached, index) ==
  IF index < Size(s.type_topic_counts) /\ s.type_topic_counts[index] > 0
  THEN LET score == RMul(cached[index], FromInt(s.type_topic_counts[index]))
       IN  ScoreScan([s EXCEPT !.topic_term_mass = RAdd(@, score),
                               !.topic_term_scores[index] = score],
                     cached, index + 1)
  ELSE s

\* a slip: topic_term_mass is not reset before the scores are added up
update_topic_scores_no_reset(s, cached) == ScoreScan(s, cached, 0)

update_topic_scores(s, cached) ==
  ScoreScan([s EXCEPT !.topic_term_mass = Zero], cached, 0)

\* state.type = type; state.type_topic_counts = type_topic_counts_.at(type)
SetType(s, type) ==
  [s EXCEPT !.type = type, !.type_topic_counts = type_topic_counts_[type]]

\* smoothing_only_mass_ + state.topic_beta_mass + state.topic_term_mass
TotalMass(s) ==
  RAdd(RAdd(smoothing_only_mass_, s.topic_beta_mass), s.topic_term_mass)

----------------------------------------------------------------------------
(* The three-bucket sampler *)

\* while (sample > 0) { ++topic; sample -= topic_term_scores.at(topic); }
RECURSIVE TermScan(_, _, _)
TermScan(s, sample, topic) ==
  IF RGt(sample, Zero)
  THEN IF topic + 1 >= Size(s.topic_term_scores) THEN OutOfRange
       ELSE TermScan(s, RSub(sample, s.topic_term_scores[topic + 1]), topic + 1)
  ELSE topic

\* a slip: the scan of the dense index subtracts the prior's share of a topic
\* instead of its local count's
RECURSIVE BetaScan_by_prior(_, _, _)
BetaScan_by_prior(s, sample, dense_index) ==
  IF dense_index < s.non_zero_topics
  THEN LET topic == s.topic_index[dense_index]
           rest == RSub(sample, RDiv(alpha_[topic], Denom(topic)))
       IN  IF RLe(rest, Zero)
           THEN [topic |-> topic, dense_index |-> dense_index]
           ELSE BetaScan_by_prior(s, rest, dense_index + 1)
  ELSE [topic |-> NoTopic, dense_index |-> dense_index]

\* the scan of the dense index; [topic, dense_index] as the loop leaves them
RECURSIVE BetaScan(_, _, _)
BetaScan(s, sample, dense_index) ==
  IF dense_index < s.non_zero_topics
  THEN LET topic == s.topic_index[dense_index]
           rest == RSub(sample,
                        RDiv(FromInt(s.topic_counts[topic]), Denom(topic)))
       IN  IF RLe(rest, Zero)
           THEN [topic |-> topic, dense_index |-> dense_index]
           ELSE BetaScan(s, rest, dense_index + 1)
  ELSE [topic |-> NoTopic, dense_index |-> dense_index]

\* while (sample > 0.0) { ++new_topic; sample -= alpha_.at(new_topic) / ... }
RECURSIVE SmoothingScan(_, _)
SmoothingScan(sample, new_topic) ==
  IF RGt(sample, Zero)
  THEN IF new_topic + 1 >= Size(alpha_) THEN OutOfRange
       ELSE SmoothingScan(
              RSub(sample, RDiv(alpha_[new_topic + 1], Denom(new_topic + 1))),
              new_topic + 1)
  ELSE new_topic

\* sample_new_topic for the draw u: [topic |-> the value returned (NoTopic
\* when no scan selects, OutOfRange when an at() throws), dense_index |-> the
\* value the beta scan leaves in state.dense_index]
sample_new_topic(s, u) ==
  LET sample == RMul(u, TotalMass(s))
  IN  IF RLt(sample, s.topic_term_mass)
      THEN [topic |-> TermScan(s, sample, -1), dense_index |-> s.dense_index]
      ELSE LET rest == RSub(sample, s.topic_term_mass)
           IN  IF RLt(rest, s.topic_beta_mass)
               THEN BetaScan(s, RDiv(rest, beta_), 0)
               ELSE LET r2 == RDiv(RSub(rest, s.topic_beta_mass), beta_)
                    IN  [topic |-> SmoothingScan(
                                     RSub(r2, RDiv(alpha_[0], Denom(0))), 0),
                         dense_index |-> s.dense_index]

----------------------------------------------------------------------------
(* The sampler service *)

\* whether sampler_.next() may return u in the current state
SamplerYields(u) ==
  IF sampler_.seq = <<>> THEN TRUE ELSE u = sampler_.seq[sampler_.pos + 1]

\* the sampler after next() returned u
SamplerAfter(u) ==
  [ seq |-> sampler_.seq,
    pos |-> IF sampler_.seq = <<>> THEN 0
            ELSE (sampler_.pos + 1) % Len(sampler_.seq),
    calls |-> sampler_.calls + 1,
    last |-> u ]

\* a sampler that has not been asked yet
FreshSampler(seq) == [seq |-> seq, pos |-> 0, calls |-> 0, last |-> Zero]

----------------------------------------------------------------------------
(* LeftToRightEvaluator::get_word_probabilities, one step per action *)

\* the out-of-vocabulary check: type < 0 || type >= type_topic_counts_.size()
OutOfVocabulary(type) == type < 0 \/ type >= Size(type_topic_counts_)

DocLength == Size(gw.types)

\* the body of the position loop is about to run for gw.position
AtSweep ==
  /\ gw.pc = "loop"
  /\ gw.limit < DocLength
  /\ gw.resampling
  /\ gw.position < gw.limit

\* the position loop is over (or off) and the token at gw.limit is next
AtFrontier ==
  /\ gw.pc = "loop"
  /\ gw.limit < DocLength
  /\ ~(gw.resampling /\ gw.position < gw.limit)

\* the locals and the LocalState at the entry of the limit loop
Entered(types, resampling) ==
  [ pc |-> "loop", types |-> types, resampling |-> resampling,
    word_probabilities |-> Vec(Size(types), Zero), tokens_so_far |-> 0,
    limit |-> 0, position |-> 0, old_topic |-> 0, new_topic |-> 0 ]

\* lines 73-99: the call starts on a fresh LocalState
Enter(types, resampling) ==
  /\ gw' = Entered(types, resampling)
  /\ state' = FreshState(Size(types))

\* lines 110-113: a prior position holding an out-of-vocabulary token
SweepSkip ==
  /\ AtSweep
  /\ OutOfVocabulary(gw.types[gw.position])
  /\ gw' = [gw EXCEPT !.position = @ + 1]
  /\ UNCHANGED <<modelVars, cached_coefficients_, sampler_, state, ev>>

\* lines 115-120: the old topic of a prior position is taken out
SweepRemove ==
  /\ AtSweep
  /\ ~OutOfVocabulary(gw.types[gw.position])
  /\ LET typed == SetType(state, gw.types[gw.position])
         old == state.doc_topics[gw.position]
         r == remove_topic_and_update_state_and_coefficients(
                typed, cached_coefficients_, old)
     IN  /\ state' = r.state
         /\ cached_coefficients_' = r.cached
         /\ gw' = [gw EXCEPT !.old_topic = old,
                             !.pc = IF RemoveThrows(typed, old)
                                    THEN "thrown" ELSE "sweep_removed"]
  /\ UNCHANGED <<modelVars, sampler_, ev>>

\* line 122
SweepScore ==
  /\ gw.pc = "sweep_removed"
  /\ state' = update_topic_scores(state, cached_coefficients_)
  /\ gw' = [gw EXCEPT !.pc = "sweep_scored"]
  /\ UNCHANGED <<modelVars, cached_coefficients_, sampler_, ev>>

\* the step that calls sample_new_topic and goes on at next
Sample(next) ==
  /\ \E u \in Draws :
       /\ SamplerYields(u)
       /\ sampler_' = SamplerAfter(u)
       /\ LET r == sample_new_topic(state, u)
          IN  /\ state' = [state EXCEPT !.dense_index = r.dense_index]
              /\ gw' = [gw EXCEPT !.new_topic = r.topic,
                                  !.pc = IF r.topic = OutOfRange
                                         THEN "thrown" ELSE next]
  /\ UNCHANGED <<modelVars, cached_coefficients_, ev>>

\* line 124
SweepSample ==
  /\ gw.pc = "sweep_scored"
  /\ Sample("sweep_sampled")

\* a slip: a failed draw of the sweep falls back to the last topic, as the
\* frontier does
SweepAdd_last_topic ==
  /\ gw.pc = "sweep_sampled"
  /\ LET new == IF gw.new_topic = NoTopic THEN NTopics - 1 ELSE gw.new_topic
         r == add_topic_and_update_state_and_coefficients(
                state, cached_coefficients_, new, gw.position)
     IN  /\ state' = r.state
         /\ cached_coefficients_' = r.cached
         /\ gw' = [gw EXCEPT !.new_topic = new, !.position = @ + 1,
                             !.pc = "loop"]
  /\ UNCHANGED <<modelVars, sampler_, ev>>

\* lines 126-129 and the loop's ++position
SweepAdd ==
  /\ gw.pc = "sweep_sampled"
  /\ LET new == IF gw.new_topic = NoTopic THEN gw.old_topic ELSE gw.new_topic
         r == add_topic_and_update_state_and_coefficients(
                state, cached_coefficients_, new, gw.position)
     IN  /\ state' = r.state
         /\ cached_coefficients_' = r.cached
         /\ gw' = [gw EXCEPT !.new_topic = new, !.position = @ + 1,
                             !.pc = "loop"]
  /\ UNCHANGED <<modelVars, sampler_, ev>>

\* a slip: an out-of-vocabulary token at the limit is counted as a token
FrontierSkip_counting ==
  /\ AtFrontier
  /\ OutOfVocabulary(gw.types[gw.limit])
  /\ gw' = [gw EXCEPT !.limit = @ + 1, !.position = 0, !.tokens_so_far = @ + 1]
  /\ UNCHANGED <<modelVars, cached_coefficients_, sampler_, state, ev>>

\* lines 135-138: the token at the limit is out of vocabulary
FrontierSkip ==
  /\ AtFrontier
  /\ OutOfVocabulary(gw.types[gw.limit])
  /\ gw' = [gw EXCEPT !.limit = @ + 1, !.position = 0]
  /\ UNCHANGED <<modelVars, cached_coefficients_, sampler_, state, ev>>

\* lines 140-147: the token at the limit is scored and its marginal recorded
FrontierScore ==
  /\ AtFrontier
  /\ ~OutOfVocabulary(gw.types[gw.limit])
  /\ LET scored == update_topic_scores(SetType(state, gw.types[gw.limit]),
                                       cached_coefficients_)
     IN  /\ state' = scored
         /\ gw' = [gw EXCEPT
                     !.word_probabilities[gw.limit] =
                        RAdd(@, RDiv(TotalMass(scored),
                                     RAdd(alpha_sum_, FromInt(gw.tokens_so_far)))),
                     !.pc = "frontier_scored"]
  /\ UNCHANGED <<modelVars, cached_coefficients_, sampler_, ev>>

\* line 149
FrontierSample ==
  /\ gw.pc = "frontier_scored"
  /\ Sample("frontier_sampled")

\* a slip: the scored token is not counted
FrontierAdd_uncounted ==
  /\ gw.pc = "frontier_sampled"
  /\ LET new == IF gw.new_topic = NoTopic THEN NTopics - 1 ELSE gw.new_topic
         r == add_topic_and_update_state_and_coefficients(
                state, cached_coefficients_, new, gw.limit)
     IN  /\ state' = r.state
         /\ cached_coefficients_' = r.cached
         /\ gw' = [gw EXCEPT !.new_topic = new,
                             !.limit = @ + 1, !.position = 0, !.pc = "loop"]
  /\ UNCHANGED <<modelVars, sampler_, ev>>

\* a slip: the assigned topic is also counted in the global statistics, as a
\* training sweep would
FrontierAdd_training ==
  /\ gw.pc = "frontier_sampled"
  /\ LET new == IF gw.new_topic = NoTopic THEN NTopics - 1 ELSE gw.new_topic
         r == add_topic_and_update_state_and_coefficients(
                state, cached_coefficients_, new, gw.limit)
     IN  /\ state' = r.state
         /\ cached_coefficients_' = r.cached
         /\ topic_counts_' = [topic_counts_ EXCEPT ![new] = @ + 1]
         /\ gw' = [gw EXCEPT !.new_topic = new, !.tokens_so_far = @ + 1,
                             !.limit = @ + 1, !.position = 0, !.pc = "loop"]
  /\ UNCHANGED <<alpha_, beta_, type_topic_counts_, alpha_sum_, beta_sum_,
                 smoothing_only_mass_, sampler_, ev>>

\* lines 151-156 and the loop's ++limit
FrontierAdd ==
  /\ gw.pc = "frontier_sampled"
  /\ LET new == IF gw.new_topic = NoTopic THEN NTopics - 1 ELSE gw.new_topic
         r == add_topic_and_update_state_and_coefficients(
                state, cached_coefficients_, new, gw.limit)
     IN  /\ state' = r.state
         /\ cached_coefficients_' = r.cached
         /\ gw' = [gw EXCEPT !.new_topic = new, !.tokens_so_far = @ + 1,
                             !.limit = @ + 1, !.position = 0, !.pc = "loop"]
  /\ UNCHANGED <<modelVars, sampler_, ev>>

\* a slip: the clean-up loop is left out
ResetScan_none(cached, s, i) == cached

\* lines 161-164: the coefficients of the active topics are reset
RECURSIVE ResetScan(_, _, _)
ResetScan(cached, s, i) ==
  IF i < s.non_zero_topics
  THEN LET topic == s.topic_index[i]
       IN  ResetScan([cached EXCEPT ![topic] =
                        RDiv(alpha_[topic], Denom(topic))], s, i + 1)
  ELSE cached

\* lines 159-166: clean up and return word_probabilities
Return ==
  /\ gw.pc = "loop"
  /\ gw.limit >= DocLength
  /\ cached_coefficients_' = ResetScan(cached_coefficients_, state, 0)
  /\ gw' = [gw EXCEPT !.pc = "returned"]
  /\ UNCHANGED <<modelVars, sampler_, state, ev>>

----------------------------------------------------------------------------
(* One call of get_word_probabilities on a constructed evaluator, for any   *)
(* document, either resampling setting and any draws                        *)

Init ==
  /\ \E p \in Params, ttc \in Vocabularies : Constructed(p, ttc)
  /\ sampler_ = FreshSampler(<<>>)
  /\ state = FreshState(0)
  /\ gw = IdleCall
  /\ ev = IdleEval

Call ==
  /\ gw.pc = "idle"
  /\ \E types \in Documents, resampling \in BOOLEAN : Enter(types, resampling)
  /\ UNCHANGED <<modelVars, cached_coefficients_, sampler_, ev>>

Next ==
  \/ Call
  \/ SweepSkip
  \/ SweepRemove
  \/ SweepScore
  \/ SweepSample
  \/ SweepAdd
  \/ FrontierSkip
  \/ FrontierScore
  \/ FrontierSample
  \/ FrontierAdd
  \/ Return

Spec == Init /\ [][Next]_vars

----------------------------------------------------------------------------
(* Free sequences of add, remove and score calls on the LocalState of a     *)
(* one-token document                                                       *)

InitOps ==
  /\ \E p \in { q \in Params : q.alpha[0] # Zero /\ q.beta # Zero },
        ttc \in { v \in Vocabularies : Size(v) = 2 } : Constructed(p, ttc)
  /\ sampler_ = FreshSampler(<<>>)
  /\ state = FreshState(1)
  /\ gw = IdleCall
  /\ ev = IdleEval

OpAdd ==
  /\ \E topic \in Topics, position \in DOMAIN state.doc_topics :
       /\ state.topic_counts[topic] < MaxLocalCount
       /\ LET r == add_topic_and_update_state_and_coefficients(
                     state, cached_coefficients_, topic, position)
          IN  /\ state' = r.state
              /\ cached_coefficients_' = r.cached
  /\ UNCHANGED <<modelVars, sampler_, gw, ev>>

OpRemove ==
  /\ \E topic \in Topics :
       /\ state.topic_counts[topic] >= 1
       /\ LET r == remove_topic_and_update_state_and_coefficients(
                     state, cached_coefficients_, topic)
          IN  /\ state' = r.state
              /\ cached_coefficients_' = r.cached
  /\ UNCHANGED <<modelVars, sampler_, gw, ev>>

OpScore ==
  /\ \E type \in DOMAIN type_topic_counts_ :
       state' = update_topic_scores(SetType(state, type), cached_coefficients_)
  /\ UNCHANGED <<modelVars, cached_coefficients_, sampler_, gw, ev>>

NextOps ==
  \/ OpAdd
  \/ OpRemove
  \/ OpScore

SpecOps == InitOps /\ [][NextOps]_vars

----------------------------------------------------------------------------
(* LeftToRightEvaluator::evaluate, run twice on one evaluator whose sampler *)
(* is a stub repeating a fixed sequence of draws                            *)

\* the sequences the stub sampler repeats
StubSequences ==
  { <<Zero>>, <<Rat(1, 2), Rat(9, 10)>>, <<Rat(9, 10), Rat(1, 2), Zero>> }

\* the documents evaluate is run on
EvalDocuments ==
  { Vec(1, -1), Vec(MaxDocLen, -1), Vec(1, 0), Vec(MaxDocLen, 0),
    [p \in 0 .. MaxDocLen - 1 |-> IF p % 2 = 1 THEN -1 ELSE 0],
    [p \in 0 .. MaxDocLen - 2 |-> IF p = 0 THEN -1 ELSE 1] }

\* the corpora evaluate is run on: one or two documents
Corpora ==
  { Vec(1, d) : d \in EvalDocuments } \cup
  { [i \in 0 .. 1 |-> IF i = 0 THEN d ELSE e] :
      d \in EvalDocuments, e \in EvalDocuments }

\* the particle counts evaluate is run with
ParticleCounts == {1, 2}

\* lines 34-39: the locals of evaluate at the entry of the document loop
EvalEntered(e) ==
  [e EXCEPT !.pc = "particles",
            !.particle_probabilities = Vec(e.n_particles, Vec(0, Zero)),
            !.doc_log_likelihood = <<>>,
            !.total_log_likelihood = <<>>,
            !.max_len = 0, !.i = 0, !.particle = 0,
            !.run = e.run + 1, !.start_pos = sampler_.pos, !.passes = <<>>]

InitEval ==
  /\ \E p \in Params, ttc \in Vocabularies : Constructed(p, ttc)
  /\ \E seq \in StubSequences : sampler_ = FreshSampler(seq)
  /\ state = FreshState(0)
  /\ gw = IdleCall
  /\ \E types \in Corpora, n \in ParticleCounts, resampling \in BOOLEAN :
       ev = [IdleEval EXCEPT !.types = types, !.n_particles = n,
                             !.resampling = resampling]

\* evaluate is called
EvCall ==
  /\ ev.pc = "idle"
  /\ ev' = EvalEntered(ev)
  /\ UNCHANGED <<modelVars, cached_coefficients_, sampler_, state, gw>>

\* line 45: get_word_probabilities is called for the next particle
EvParticle ==
  /\ ev.pc = "particles"
  /\ ev.particle < ev.n_particles
  /\ Enter(ev.types[ev.i], ev.resampling)
  /\ ev' = [ev EXCEPT !.pc = "waiting"]
  /\ UNCHANGED <<modelVars, cached_coefficients_, sampler_>>

Max(a, b) == IF a > b THEN a ELSE b

\* a slip: the particle's vector is written over the previous document's
\* without being resized, so a longer one keeps its tail
EvCollect_overlay ==
  /\ ev.pc = "waiting"
  /\ gw.pc = "returned"
  /\ LET old == ev.particle_probabilities[ev.particle]
         new == gw.word_probabilities
     IN  ev' = [ev EXCEPT
                  !.particle_probabilities[ev.particle] =
                     [p \in DOMAIN old \cup DOMAIN new |->
                        IF p \in DOMAIN new THEN new[p] ELSE old[p]],
                  !.max_len = Max(@, Size(new)),
                  !.particle = @ + 1,
                  !.pc = "particles",
                  !.passes = Append(@, [probabilities |-> new,
                                        topics |-> state.doc_topics])]
  /\ gw' = [gw EXCEPT !.pc = "idle"]
  /\ UNCHANGED <<modelVars, cached_coefficients_, sampler_, state>>

\* lines 45-46: the particle's probabilities are stored, max_len is raised
EvCollect ==
  /\ ev.pc = "waiting"
  /\ gw.pc = "returned"
  /\ ev' = [ev EXCEPT
              !.particle_probabilities[ev.particle] = gw.word_probabilities,
              !.max_len = Max(@, Size(gw.word_probabilities)),
              !.particle = @ + 1,
              !.pc = "particles",
              !.passes = Append(@, [probabilities |-> gw.word_probabilities,
                                    topics |-> state.doc_topics])]
  /\ gw' = [gw EXCEPT !.pc = "idle"]
  /\ UNCHANGED <<modelVars, cached_coefficients_, sampler_, state>>

\* lines 50-56: the sum over the particles that reach position
RECURSIVE PositionSumFrom(_, _, _, _)
PositionSumFrom(pp, position, particle, sum) ==
  IF particle >= Size(pp) THEN sum
  ELSE IF position >= Size(pp[particle]) THEN sum
  ELSE PositionSumFrom(pp, position, particle + 1,
                       RAdd(sum, pp[particle][position]))

PositionSum(pp, position) == PositionSumFrom(pp, position, 0, Zero)

\* a slip: the guard lets a zero sum through to the logarithm
RECURSIVE DocLogLikelihoodFrom_unguarded(_, _, _, _)
DocLogLikelihoodFrom_unguarded(pp, max_len, position, acc) ==
  IF position >= max_len THEN acc
  ELSE LET sum == PositionSum(pp, position)
       IN  DocLogLikelihoodFrom_unguarded(pp, max_len, position + 1,
             IF RLe(Zero, sum) THEN Append(acc, sum) ELSE acc)

\* lines 49-62: doc_log_likelihood after the position loop
RECURSIVE DocLogLikelihoodFrom(_, _, _, _)
DocLogLikelihoodFrom(pp, max_len, position, acc) ==
  IF position >= max_len THEN acc
  ELSE LET sum == PositionSum(pp, position)
       IN  DocLogLikelihoodFrom(pp, max_len, position + 1,
             IF RGt(sum, Zero) THEN Append(acc, sum) ELSE acc)

\* lines 49-64: the positions are summed over the particles and the
\* document's log-likelihood is added to the total
EvSum ==
  /\ ev.pc = "particles"
  /\ ev.particle >= ev.n_particles
  /\ LET doc == DocLogLikelihoodFrom(ev.particle_probabilities, ev.max_len,
                                     0, <<>>)
     IN  ev' = [ev EXCEPT
                  !.doc_log_likelihood = doc,
                  !.total_log_likelihood = Append(@, doc),
                  !.i = @ + 1,
                  !.particle = 0,
                  !.pc = IF ev.i + 1 >= Size(ev.types) THEN "done"
                         ELSE "particles"]
  /\ UNCHANGED <<modelVars, cached_coefficients_, sampler_, state, gw>>

\* evaluate is called a second time, with the same arguments
EvAgain ==
  /\ ev.pc = "done"
  /\ ev.run = 1
  /\ ev' = [EvalEntered(ev) EXCEPT
              !.first = [passes |-> ev.passes,
                         total_log_likelihood |-> ev.total_log_likelihood,
                         start_pos |-> ev.start_pos]]
  /\ UNCHANGED <<modelVars, cached_coefficients_, sampler_, state, gw>>

NextEval ==
  \/ EvCall
  \/ EvParticle
  \/ EvCollect
  \/ EvSum
  \/ EvAgain
  \/ SweepSkip
  \/ SweepRemove
  \/ SweepScore
  \/ SweepSample
  \/ SweepAdd
  \/ FrontierSkip
  \/ FrontierScore
  \/ FrontierSample
  \/ FrontierAdd
  \/ Return

SpecEval == InitEval /\ [][NextEval]_vars

----------------------------------------------------------------------------
(* Claims *)

\* the topics with a nonzero local count
ActiveTopics == { t \in Topics : state.topic_counts[t] # 0 }

\* the first non_zero_topics entries of topic_index, as a sequence
ActivePrefix(s) == [i \in 0 .. s.non_zero_topics - 1 |-> s.topic_index[i]]

\* C1: after any sequence of add and remove calls (each remove on a topic of
\* local count >= 1) the first non_zero_topics entries of topic_index are
\* exactly the topics of nonzero local count, strictly ascending, and
\* non_zero_topics is the number of such topics.
ActiveSetInvariant ==
  /\ state.non_zero_topics = Cardinality(ActiveTopics)
  /\ state.non_zero_topics <= Size(state.topic_index)
  /\ { state.topic_index[i] : i \in 0 .. state.non_zero_topics - 1 } = ActiveTopics
  /\ \A i, j \in 0 .. state.non_zero_topics - 1 :
       i < j => state.topic_index[i] < state.topic_index[j]

\* C1 witness: only the last topic is active, after deletions shifted it down
\* to slot 0 from the top slot of a full index
ActiveSetWitness ==
  /\ state.non_zero_topics = 1
  /\ state.topic_counts[NTopics - 1] = MaxLocalCount
  /\ state.topic_index = Vec(NTopics, NTopics - 1)


\* the count a word's profile contributes at topic t: its entry at t when no
\* entry up to t is zero, and 0 behind the first zero entry
ProfileCount(profile, t) ==
  IF \A j \in 0 .. t : profile[j] > 0 THEN profile[t] ELSE 0

RECURSIVE ScratchFrom(_, _, _, _)
ScratchFrom(counts, profile, t, acc) ==
  IF t >= NTopics THEN acc
  ELSE ScratchFrom(counts, profile, t + 1,
         RAdd(acc,
              RDiv(RMul(RAdd(alpha_[t], FromInt(counts[t])),
                        RAdd(beta_, FromInt(ProfileCount(profile, t)))),
                   RAdd(FromInt(topic_counts_[t]), beta_sum_))))

\* the total mass of word w under the local counts, summed over all topics:
\* (prior + local count) * (beta + profile count) / (global count + beta_sum)
MassFromScratch(counts, w) == ScratchFrom(counts, type_topic_counts_[w], 0, Zero)

\* C3: after any sequence of add and remove calls, update_topic_scores for a
\* word w leaves smoothing_only_mass + topic_beta_mass + topic_term_mass equal
\* to the mass of w recomputed from scratch over all topics.
MassConservation ==
  \A w \in DOMAIN type_topic_counts_ :
    TotalMass(update_topic_scores(SetType(state, w), cached_coefficients_))
      = MassFromScratch(state.topic_counts, w)

\* C3 witness: a score update has run for the word now typed while two topics
\* are active, and all three buckets hold mass
MassConservationWitness ==
  /\ state.non_zero_topics >= 2
  /\ Size(state.type_topic_counts) = NTopics
  /\ state = update_topic_scores(state, cached_coefficients_)
  /\ RGt(state.topic_term_mass, Zero)
  /\ RGt(state.topic_beta_mass, Zero)
  /\ RGt(smoothing_only_mass_, Zero)

\* C8: from any reachable local state, an add of topic t at position p followed
\* by a remove of t restores every local count, the active set (the first
\* non_zero_topics entries of topic_index and non_zero_topics) and every
\* cached coefficient.
AddRemoveInverse ==
  \A t \in Topics, p \in DOMAIN state.doc_topics :
    LET a == add_topic_and_update_state_and_coefficients(
               state, cached_coefficients_, t, p)
        r == remove_topic_and_update_state_and_coefficients(a.state, a.cached, t)
    IN  /\ r.state.topic_counts = state.topic_counts
        /\ r.state.non_zero_topics = state.non_zero_topics
        /\ ActivePrefix(r.state) = ActivePrefix(state)
        /\ r.cached = cached_coefficients_

\* C8 witness: every topic but topic 0 is active, so an add of topic 0 shifts
\* the whole index right and the remove shifts it back
AddRemoveInverseWitness ==
  /\ state.topic_counts[0] = 0
  /\ state.non_zero_topics = NTopics - 1
  /\ LET a == add_topic_and_update_state_and_coefficients(
                state, cached_coefficients_, 0, 0)
         r == remove_topic_and_update_state_and_coefficients(a.state, a.cached, 0)
     IN  /\ a.state.non_zero_topics = NTopics
         /\ a.state.topic_index[0] = 0
         /\ a.cached # cached_coefficients_
         /\ r.state.non_zero_topics = NTopics - 1


\* the coefficient of a topic whose local count is zero
ZeroCountCoefficient(t) ==
  RDiv(alpha_[t], RAdd(FromInt(topic_counts_[t]), beta_sum_))

\* C2: when get_word_probabilities returns, the cached coefficient of every
\* topic, active or not, is prior / (global count + beta_sum), the value a
\* freshly constructed evaluator holds.
CacheTeardown ==
  gw.pc = "returned" =>
    cached_coefficients_ = [t \in Topics |-> ZeroCountCoefficient(t)]

\* C2 witness: a resampling pass has returned, and the topic its last sweep
\* step took out of a position is back at local count zero while another
\* topic is active
CacheTeardownWitness ==
  /\ gw.pc = "returned"
  /\ gw.resampling
  /\ gw.tokens_so_far >= 2
  /\ sampler_.calls > gw.tokens_so_far
  /\ state.topic_counts[gw.old_topic] = 0
  /\ state.non_zero_topics >= 1

\* the number of in-vocabulary positions strictly before p
PriorInVocabulary(types, p) ==
  Cardinality({ q \in 0 .. p - 1 : ~OutOfVocabulary(types[q]) })

\* C4: the sequence get_word_probabilities builds has the document's length;
\* an out-of-vocabulary position holds 0; the step that scores the
\* in-vocabulary position p stores there the total mass right after the score
\* update for the word at p, divided by alpha_sum + k, k the number of
\* in-vocabulary positions strictly before p; no later step changes an entry.
RecordedMarginal ==
  /\ [](gw.pc # "idle" =>
          /\ DOMAIN gw.word_probabilities = DOMAIN gw.types
          /\ \A p \in DOMAIN gw.types :
               OutOfVocabulary(gw.types[p]) => gw.word_probabilities[p] = Zero)
  /\ [][ IF AtFrontier /\ ~OutOfVocabulary(gw.types[gw.limit])
         THEN /\ state'.type = gw.types[gw.limit]
              /\ gw'.word_probabilities =
                   [gw.word_probabilities EXCEPT ![gw.limit] =
                      RDiv(TotalMass(state'),
                           RAdd(alpha_sum_,
                                FromInt(PriorInVocabulary(gw.types, gw.limit))))]
         ELSE gw.pc # "idle" => gw'.word_probabilities = gw.word_probabilities
       ]_vars

\* C4 witness: a returned pass over a three-token document whose middle token
\* is out of vocabulary, the last position scored with k = 1
RecordedMarginalWitness ==
  /\ gw.pc = "returned"
  /\ DocLength = 3
  /\ ~OutOfVocabulary(gw.types[0])
  /\ OutOfVocabulary(gw.types[1])
  /\ ~OutOfVocabulary(gw.types[2])
  /\ gw.tokens_so_far = 2
  /\ RGt(gw.word_probabilities[2], Zero)
  /\ gw.word_probabilities[2] # gw.word_probabilities[0]

\* C5: an out-of-vocabulary token at the limit changes nothing but the loop
\* position (no probability recorded, tokens_so_far, the LocalState, the
\* cached coefficients and the sampler untouched); as a prior position of a
\* resampling sweep it is stepped over, never removed, scored or sampled.
OutOfVocabularySkip ==
  /\ [](gw.pc \in {"sweep_removed", "sweep_scored", "sweep_sampled"} =>
          ~OutOfVocabulary(gw.types[gw.position]))
  /\ [](gw.pc \in {"frontier_scored", "frontier_sampled"} =>
          ~OutOfVocabulary(gw.types[gw.limit]))
  /\ [][ /\ (AtFrontier /\ OutOfVocabulary(gw.types[gw.limit])) =>
              /\ gw' = [gw EXCEPT !.limit = @ + 1, !.position = 0]
              /\ UNCHANGED <<state, cached_coefficients_, sampler_>>
         /\ (AtSweep /\ OutOfVocabulary(gw.types[gw.position])) =>
              /\ gw' = [gw EXCEPT !.position = @ + 1]
              /\ UNCHANGED <<state, cached_coefficients_, sampler_>>
       ]_vars

\* C5 witness: a resampling pass that stepped over an out-of-vocabulary token
\* both at the limit and, twice, as a prior position of a sweep
OutOfVocabularySkipWitness ==
  /\ gw.pc = "returned"
  /\ gw.resampling
  /\ DocLength = 3
  /\ OutOfVocabulary(gw.types[0])
  /\ ~OutOfVocabulary(gw.types[1])
  /\ ~OutOfVocabulary(gw.types[2])
  /\ gw.tokens_so_far = 2
  /\ sampler_.calls = 3

\* the worked scenario: 2 topics, priors [0.1, 0.1], beta 0.01, global counts
\* [5, 5], one word with profile [3, 0], a single-token document, no
\* resampling, and a sampler that returned 0.0 for the one draw
WorkedScenario ==
  /\ NTopics = 2
  /\ alpha_ = Vec(NTopics, Tenth)
  /\ beta_ = Rat(1, 100)
  /\ topic_counts_ = Vec(NTopics, 5)
  /\ type_topic_counts_ = Vec(1, ProfileOne)
  /\ gw.types = Vec(1, 0)
  /\ ~gw.resampling
  /\ sampler_.calls = 1
  /\ sampler_.last = Zero

\* C7: in the worked scenario the draw 0.0 falls into the term bucket,
\* sample_new_topic returns topic 0, the first entry of that bucket, and
\* topic 0 is the topic assigned to position 0.
TermBucketDraw ==
  /\ (WorkedScenario /\ gw.pc = "frontier_sampled") =>
       /\ RLt(RMul(sampler_.last, TotalMass(state)), state.topic_term_mass)
       /\ gw.new_topic = 0
  /\ (WorkedScenario /\ gw.pc = "returned") => state.doc_topics[0] = 0

\* C10 as stated: whatever the non-negative priors and beta, the total mass at
\* a scored in-vocabulary position and the marginal recorded there are
\* strictly positive.
PositiveMass ==
  /\ gw.pc \in {"frontier_scored", "sweep_scored"} =>
       RGt(TotalMass(state), Zero)
  /\ gw.pc = "frontier_scored" =>
       RGt(gw.word_probabilities[gw.limit], Zero)

\* C10 amended: when beta and at least one prior are strictly positive, the
\* total mass at a scored in-vocabulary position and the marginal recorded
\* there are strictly positive.
PositiveMassWithPositivePrior ==
  (RGt(beta_, Zero) /\ \E t \in Topics : RGt(alpha_[t], Zero)) => PositiveMass

\* C10 witness: the limit token is scored with no topic active and no term
\* mass, under priors of which one is zero: all mass is smoothing-only mass
PositiveMassWitness ==
  /\ gw.pc = "frontier_scored"
  /\ RGt(beta_, Zero)
  /\ alpha_[0] = Zero
  /\ \E t \in Topics : RGt(alpha_[t], Zero)
  /\ state.topic_term_mass = Zero
  /\ state.topic_beta_mass = Zero
  /\ RGt(gw.word_probabilities[gw.limit], Zero)


\* every token of the document is out of vocabulary
AllOutOfVocabulary(types) ==
  \A p \in DOMAIN types : OutOfVocabulary(types[p])

\* C6: a document whose every token is out of vocabulary adds nothing to the
\* value evaluate returns: every per-position particle sum is 0, its
\* doc_log_likelihood has no term, and no sum that is not strictly positive
\* ever reaches the logarithm.
AllOutOfVocabularyDocument ==
  /\ (ev.pc = "particles" /\ ev.particle >= ev.n_particles
        /\ AllOutOfVocabulary(ev.types[ev.i])) =>
       \A position \in 0 .. ev.max_len - 1 :
         PositionSum(ev.particle_probabilities, position) = Zero
  /\ \A d \in 1 .. Len(ev.total_log_likelihood) :
       /\ AllOutOfVocabulary(ev.types[d - 1]) =>
            ev.total_log_likelihood[d] = <<>>
       /\ \A k \in 1 .. Len(ev.total_log_likelihood[d]) :
            RGt(ev.total_log_likelihood[d][k], Zero)

\* C6 witness: evaluate is done with two resampling particles on a corpus
\* whose first document added terms and whose second, the longest all
\* out-of-vocabulary document, added none
AllOutOfVocabularyWitness ==
  /\ ev.pc = "done"
  /\ ev.n_particles = 2
  /\ ev.resampling
  /\ Size(ev.types) = 2
  /\ ev.types[1] = Vec(MaxDocLen, -1)
  /\ Len(ev.total_log_likelihood) = 2
  /\ ev.total_log_likelihood[1] # <<>>
  /\ ev.total_log_likelihood[2] = <<>>

\* C9: with a stub sampler repeating a fixed sequence, one particle and no
\* resampling, two runs of evaluate on the same corpus that start at the same
\* point of the stub's sequence produce the same per-position marginal
\* probabilities, the same topic assignments and the same log-likelihood.
DeterministicRuns ==
  (/\ ev.pc = "done"
   /\ ev.run = 2
   /\ ev.n_particles = 1
   /\ ~ev.resampling
   /\ ev.start_pos = ev.first.start_pos) =>
    /\ ev.passes = ev.first.passes
    /\ ev.total_log_likelihood = ev.first.total_log_likelihood

\* C9 witness: both runs are done from the same point of a stub sequence of
\* two different draws, on a document whose tokens were given different topics
DeterministicRunsWitness ==
  /\ ev.pc = "done"
  /\ ev.run = 2
  /\ ev.n_particles = 1
  /\ ~ev.resampling
  /\ ev.start_pos = ev.first.start_pos
  /\ Len(sampler_.seq) = 2
  /\ sampler_.calls >= 4
  /\ \E k \in 1 .. Len(ev.passes) :
       /\ \E p, q \in DOMAIN ev.passes[k].topics :
            ev.passes[k].topics[p] # ev.passes[k].topics[q]
       /\ \E p \in DOMAIN ev.passes[k].probabilities :
            RGt(ev.passes[k].probabilities[p], Zero)

\* C11: no step of evaluate, whatever the documents, the particle count, the
\* resampling flag and the draws, changes the priors, beta, alpha_sum,
\* beta_sum, the global topic counts, the word profiles or
\* smoothing_only_mass, and these stay the values the constructor computed;
\* of the evaluator's members only the cached coefficients and the sampler
\* change.
ReadOnlyModel ==
  /\ [](/\ alpha_sum_ = Accumulate(alpha_)
        /\ beta_sum_ = RMul(FromInt(NTopics), beta_)
        /\ smoothing_only_mass_ =
             SmoothingFrom(alpha_, beta_, topic_counts_, beta_sum_, 0, Zero))
  /\ [][ /\ alpha_' = alpha_
         /\ beta_' = beta_
         /\ topic_counts_' = topic_counts_
         /\ type_topic_counts_' = type_topic_counts_
         /\ alpha_sum_' = alpha_sum_
         /\ beta_sum_' = beta_sum_
         /\ smoothing_only_mass_' = smoothing_only_mass_
       ]_vars

\* C11 witness: evaluate is inside the pass of its second document with
\* resampling, draws have been consumed and a cached coefficient differs from
\* the value the constructor stored
ReadOnlyModelWitness ==
  /\ ev.pc = "waiting"
  /\ ev.i = 1
  /\ ev.resampling
  /\ gw.pc = "sweep_scored"
  /\ sampler_.calls >= 2
  /\ cached_coefficients_ # [t \in Topics |-> ZeroCountCoefficient(t)]

\* get_word_probabilities is between two add or remove operations: past its
\* entry and before its clean-up loop
BetweenOperations ==
  gw.pc \in { "loop", "sweep_removed", "sweep_scored", "sweep_sampled",
              "frontier_scored", "frontier_sampled" }

\* C12: between two add or remove operations of get_word_probabilities, in
\* the first pass and in every later pass of an evaluator, the cached
\* coefficient of every topic is (prior + local count) / (global count +
\* beta_sum) under the local counts of the running pass.
CachedCoefficientInvariant ==
  BetweenOperations =>
    \A t \in Topics :
      cached_coefficients_[t] =
        RDiv(RAdd(alpha_[t], FromInt(state.topic_counts[t])),
             RAdd(FromInt(topic_counts_[t]), beta_sum_))

\* C12 witness: in a later pass of the evaluator, with resampling, the score
\* update of the third token has read the cache while two topics are active
CachedCoefficientWitness ==
  /\ gw.pc = "frontier_scored"
  /\ gw.resampling
  /\ gw.limit = 2
  /\ Len(ev.passes) >= 1
  /\ state.non_zero_topics >= 2
  /\ RGt(state.topic_term_mass, Zero)

\* the in-vocabulary positions before the limit
InVocabularyBefore(limit) ==
  { p \in 0 .. limit - 1 : ~OutOfVocabulary(gw.types[p]) }

\* the positions that carry a topic assignment counted in the local counts:
\* the in-vocabulary positions before the limit, but for the position a
\* resampling step has taken out and not yet put back
AssignedPositions ==
  IF gw.pc \in {"sweep_removed", "sweep_scored", "sweep_sampled"}
  THEN InVocabularyBefore(gw.limit) \ {gw.position}
  ELSE InVocabularyBefore(gw.limit)

RECURSIVE SumFrom(_, _)
SumFrom(v, i) == IF i >= Size(v) THEN 0 ELSE v[i] + SumFrom(v, i + 1)

\* C13: throughout get_word_probabilities the local count of every topic is
\* the number of assigned in-vocabulary positions whose doc_topics entry is
\* that topic, less the position a resampling step has taken out; so no local
\* count is negative, the counts add up to tokens_so_far whenever the token at
\* the limit is next or being handled, and the topic a sweep step is about to
\* remove has local count >= 1 and is among the first non_zero_topics entries
\* of topic_index.
LocalCountConsistency ==
  gw.pc \notin {"idle", "thrown"} =>
    /\ \A t \in Topics :
         /\ state.topic_counts[t] =
              Cardinality({ p \in AssignedPositions : state.doc_topics[p] = t })
         /\ state.topic_counts[t] >= 0
    /\ (AtFrontier \/ gw.pc \in {"frontier_scored", "frontier_sampled"}) =>
         SumFrom(state.topic_counts, 0) = gw.tokens_so_far
    /\ (AtSweep /\ ~OutOfVocabulary(gw.types[gw.position])) =>
         LET old == state.doc_topics[gw.position]
         IN  /\ state.topic_counts[old] >= 1
             /\ \E i \in 0 .. state.non_zero_topics - 1 :
                  state.topic_index[i] = old
             /\ ~RemoveThrows(SetType(state, gw.types[gw.position]), old)

\* C13 witness: a resampling step on the last position before the limit has
\* taken out the only token of its topic, so the deletion scan ran, while the
\* other in-vocabulary position keeps another topic
LocalCountWitness ==
  /\ gw.pc = "sweep_removed"
  /\ gw.limit = 2
  /\ gw.position = 1
  /\ ~OutOfVocabulary(gw.types[0])
  /\ state.doc_topics[0] # state.doc_topics[1]
  /\ state.topic_counts[state.doc_topics[1]] = 0
  /\ state.topic_counts[state.doc_topics[0]] = 1
  /\ state.non_zero_topics = 1

\* the sum of local_count[t] / (global_count[t] + beta_sum) over the first
\* i + 1 entries of the dense active index
RECURSIVE ActiveCumulative(_, _)
ActiveCumulative(s, i) ==
  IF i < 0 THEN Zero
  ELSE RAdd(ActiveCumulative(s, i - 1),
            RDiv(FromInt(s.topic_counts[s.topic_index[i]]),
                 RAdd(FromInt(topic_counts_[s.topic_index[i]]), beta_sum_)))

\* the sum of prior[t] / (global_count[t] + beta_sum) over the topics 0 .. k
RECURSIVE PriorCumulative(_)
PriorCumulative(k) ==
  IF k < 0 THEN Zero
  ELSE RAdd(PriorCumulative(k - 1),
            RDiv(alpha_[k], RAdd(FromInt(topic_counts_[k]), beta_sum_)))

\* the least element of a nonempty set of naturals
Least(S) == CHOOSE x \in S : \A y \in S : x <= y

\* the remainder r = u * total - topic_term_mass of the draw u
Remainder(s, u) == RSub(RMul(u, TotalMass(s)), s.topic_term_mass)

\* the draw u does not fall into the term bucket
PastTermBucket(s, u) == ~RLt(RMul(u, TotalMass(s)), s.topic_term_mass)

\* the slots of the dense active index at which the cumulative sum reaches
\* the target
BetaCandidates(s, target) ==
  { i \in 0 .. s.non_zero_topics - 1 : RLe(target, ActiveCumulative(s, i)) }

\* the topics at which the cumulative sum of the priors' shares reaches the
\* target
SmoothingCandidates(target) ==
  { k \in Topics : RLe(target, PriorCumulative(k)) }

\* the topic the beta and smoothing buckets select for the draw u: the first
\* active topic to reach r / beta when r < topic_beta_mass, and otherwise the
\* first topic to reach (r - topic_beta_mass) / beta
BucketTopic(s, u, topic) ==
  LET r == Remainder(s, u)
  IN  IF RLt(r, s.topic_beta_mass)
      THEN LET candidates == BetaCandidates(s, RDiv(r, beta_))
           IN  /\ candidates # {}
               /\ topic = s.topic_index[Least(candidates)]
      ELSE LET candidates ==
                 SmoothingCandidates(RDiv(RSub(r, s.topic_beta_mass), beta_))
           IN  /\ candidates # {}
               /\ topic = Least(candidates)

\* draws in [0,1), finer than the ones the sampler returns and up to just
\* below 1
FineDraws == { Rat(k, 8) : k \in 0 .. 7 } \cup Draws \cup { Rat(999, 1000) }

\* C14: for beta > 0, when the scaled draw is not below topic_term_mass,
\* sample_new_topic returns, if r < topic_beta_mass, the first topic of the
\* dense active index at which the cumulative sum of local_count / (global
\* count + beta_sum) reaches r / beta, and otherwise the first topic from 0
\* upward at which the cumulative sum of prior / (global count + beta_sum)
\* reaches (r - topic_beta_mass) / beta; checked for the topic each sampling
\* step returned and, in every scored state, for every draw of a finer set.
BetaAndSmoothingBuckets ==
  RGt(beta_, Zero) =>
    /\ (gw.pc \in {"sweep_sampled", "frontier_sampled"}
          /\ PastTermBucket(state, sampler_.last)) =>
         BucketTopic(state, sampler_.last, gw.new_topic)
    /\ gw.pc \in {"sweep_scored", "frontier_scored"} =>
         \A u \in FineDraws :
           PastTermBucket(state, u) =>
             BucketTopic(state, u, sample_new_topic(state, u).topic)

\* C14 witness: a draw fell into the beta bucket with two topics active and
\* the scan went past the first active topic to return the second
BetaBucketWitness ==
  /\ gw.pc \in {"sweep_sampled", "frontier_sampled"}
  /\ RGt(beta_, Zero)
  /\ PastTermBucket(state, sampler_.last)
  /\ RLt(Remainder(state, sampler_.last), state.topic_beta_mass)
  /\ state.non_zero_topics >= 2
  /\ state.dense_index = 1
  /\ gw.new_topic = state.topic_index[1]

\* the LocalState a resampling step on the current position ends in when
\* sample_new_topic fails on the draw u: the remove, the score update and the
\* add of the previous topic, from the state the step starts in
AfterFailedSweepStep(u) ==
  LET typed == SetType(state, gw.types[gw.position])
      old == state.doc_topics[gw.position]
      r == remove_topic_and_update_state_and_coefficients(
             typed, cached_coefficients_, old)
      scored == update_topic_scores(r.state, r.cached)
  IN  IF sample_new_topic(scored, u).topic = NoTopic
      THEN add_topic_and_update_state_and_coefficients(
             scored, r.cached, old, gw.position).state
      ELSE state

\* C15: when sample_new_topic returns -1, a resampling step adds the
\* position's previous topic, leaving doc_topics as it was and the local
\* counts, the active set and non_zero_topics as they were before the step; a
\* frontier step writes n_topics - 1 to the position at the limit; either way
\* exactly one local count goes up by one and the position is assigned.
FailedDrawFallback ==
  /\ []((AtSweep /\ ~OutOfVocabulary(gw.types[gw.position])) =>
          \A u \in Draws :
            LET after == AfterFailedSweepStep(u)
            IN  /\ after.topic_counts = state.topic_counts
                /\ after.doc_topics = state.doc_topics
                /\ after.non_zero_topics = state.non_zero_topics
                /\ ActivePrefix(after) = ActivePrefix(state))
  /\ [][ /\ (gw.pc = "sweep_sampled" /\ gw.new_topic = NoTopic) =>
              /\ state.doc_topics[gw.position] = gw.old_topic
              /\ state'.doc_topics = state.doc_topics
              /\ state'.topic_counts =
                   [state.topic_counts EXCEPT ![gw.old_topic] = @ + 1]
              /\ gw'.pc = "loop"
         /\ (gw.pc = "frontier_sampled" /\ gw.new_topic = NoTopic) =>
              /\ state'.doc_topics =
                   [state.doc_topics EXCEPT ![gw.limit] = NTopics - 1]
              /\ state'.topic_counts =
                   [state.topic_counts EXCEPT ![NTopics - 1] = @ + 1]
              /\ gw'.tokens_so_far = gw.tokens_so_far + 1
              /\ gw'.pc = "loop"
       ]_vars

\* C15 witness: a resampling step has just put topic 0, which is not the last
\* topic, back on the position before the current one after the draw 0.0
\* failed in the term bucket
FailedDrawFallbackWitness ==
  /\ gw.pc = "loop"
  /\ gw.resampling
  /\ gw.position >= 1
  /\ gw.position <= gw.limit
  /\ gw.limit < DocLength
  /\ ~OutOfVocabulary(gw.types[gw.position - 1])
  /\ sampler_.last = Zero
  /\ RGt(state.topic_term_mass, Zero)
  /\ state.doc_topics[gw.position - 1] = 0
  /\ gw.new_topic = 0
  /\ NTopics - 1 # 0

\* the topics listed in the first non_zero_topics entries of topic_index
ActivePrefixSet(s) == { s.topic_index[i] : i \in 0 .. s.non_zero_topics - 1 }

\* beta * count / (global count + beta_sum), the share of a topic in
\* topic_beta_mass at a given local count
BetaShare(t, count) ==
  RDiv(RMul(beta_, FromInt(count)), RAdd(FromInt(topic_counts_[t]), beta_sum_))

\* the mass and the cached coefficient of topic t follow its updated count
MassFollowsCount(t) ==
  /\ state'.topic_beta_mass =
       RAdd(RSub(state.topic_beta_mass, BetaShare(t, state.topic_counts[t])),
            BetaShare(t, state'.topic_counts[t]))
  /\ cached_coefficients_'[t] =
       RDiv(RAdd(alpha_[t], FromInt(state'.topic_counts[t])),
            RAdd(FromInt(topic_counts_[t]), beta_sum_))

\* C16: an add that raises a local count past 1 and a remove that leaves it
\* above 0 leave topic_index and non_zero_topics unchanged; the topic enters
\* the active prefix exactly in the add after which its count is 1 and leaves
\* it exactly in the remove after which its count is 0; in every add and
\* remove topic_beta_mass and the cached coefficient follow the updated count.
IndexOnlyAtCountBoundary ==
  [][ \A t \in Topics :
        /\ state'.topic_counts[t] = state.topic_counts[t] + 1 =>
             /\ MassFollowsCount(t)
             /\ IF state'.topic_counts[t] = 1
                THEN /\ state'.non_zero_topics = state.non_zero_topics + 1
                     /\ t \notin ActivePrefixSet(state)
                     /\ ActivePrefixSet(state') = ActivePrefixSet(state) \cup {t}
                ELSE /\ state'.topic_index = state.topic_index
                     /\ state'.non_zero_topics = state.non_zero_topics
        /\ state'.topic_counts[t] = state.topic_counts[t] - 1 =>
             /\ MassFollowsCount(t)
             /\ IF state'.topic_counts[t] = 0
                THEN /\ state'.non_zero_topics = state.non_zero_topics - 1
                     /\ t \in ActivePrefixSet(state)
                     /\ ActivePrefixSet(state') = ActivePrefixSet(state) \ {t}
                ELSE /\ state'.topic_index = state.topic_index
                     /\ state'.non_zero_topics = state.non_zero_topics
    ]_vars

\* C16 witness: every topic is active, topic 0 after an add that raised its
\* count past 1 to the largest count, the last topic with a single token
IndexOnlyAtCountBoundaryWitness ==
  /\ state.non_zero_topics = NTopics
  /\ state.topic_counts[0] = MaxLocalCount
  /\ MaxLocalCount > 1
  /\ state.topic_counts[NTopics - 1] = 1
  /\ state.topic_index = [i \in Topics |-> i]

\* the index of the first entry of a profile that is not positive, the size
\* of the profile when there is none: the entries update_topic_scores scores
RECURSIVE FirstZeroFrom(_, _)
FirstZeroFrom(profile, index) ==
  IF index < Size(profile) /\ profile[index] > 0
  THEN FirstZeroFrom(profile, index + 1)
  ELSE index

\* what sample_new_topic returns for the draw u is -1 or a topic, and the
\* scan that produced it stayed within its candidates
WithinCandidates(s, u) ==
  LET r == sample_new_topic(s, u)
  IN  /\ r.topic \in {NoTopic} \cup Topics
      /\ IF ~PastTermBucket(s, u)
         THEN r.topic < FirstZeroFrom(s.type_topic_counts, 0)
         ELSE IF RLt(Remainder(s, u), s.topic_beta_mass)
         THEN /\ r.dense_index \in 0 .. s.non_zero_topics
              /\ r.topic # NoTopic =>
                   /\ r.dense_index < s.non_zero_topics
                   /\ r.topic = s.topic_index[r.dense_index]
         ELSE r.topic \in Topics

\* C17: for beta > 0, in every state in which get_word_probabilities calls
\* sample_new_topic and for every draw of a fine set in [0,1), the result is
\* -1 or a topic in 0 .. n_topics - 1; the term scan stops before the current
\* word's first zero-count profile entry, the beta scan within the first
\* non_zero_topics entries of topic_index, the smoothing scan below n_topics;
\* no sampling step of a pass ends in an out-of-range read.
SamplerRangeAndScanBounds ==
  RGt(beta_, Zero) =>
    /\ gw.pc \in {"sweep_scored", "frontier_scored"} =>
         \A u \in FineDraws : WithinCandidates(state, u)
    /\ gw.pc \in {"sweep_sampled", "frontier_sampled"} =>
         gw.new_topic \in {NoTopic} \cup Topics
    /\ gw.pc # "thrown"

\* C17 witness: the word being sampled has mass in the term bucket and a zero
\* profile entry at topic 1, where topic_term_scores still holds the positive
\* score of an earlier word, and a draw in the term bucket returns topic 0
SamplerRangeWitness ==
  /\ gw.pc = "frontier_scored"
  /\ RGt(beta_, Zero)
  /\ FirstZeroFrom(state.type_topic_counts, 0) = 1
  /\ RGt(state.topic_term_scores[1], Zero)
  /\ \E u \in FineDraws :
       /\ ~PastTermBucket(state, u)
       /\ sample_new_topic(state, u).topic = 0

\* the probabilities the k-th particle of the d-th document of the current
\* run recorded (d and k counted from 1)
ParticleOf(d, k) == ev.passes[(d - 1) * ev.n_particles + k].probabilities

\* the sum over the particles of document d at one of its own positions
RECURSIVE OwnSumFrom(_, _, _, _)
OwnSumFrom(d, position, k, sum) ==
  IF k > ev.n_particles THEN sum
  ELSE OwnSumFrom(d, position, k + 1, RAdd(sum, ParticleOf(d, k)[position]))

\* the log terms of document d by itself: one for each of its own positions
\* whose particle sum is strictly positive, in order
RECURSIVE OwnTermsFrom(_, _, _)
OwnTermsFrom(d, position, acc) ==
  IF position >= Size(ev.types[d - 1]) THEN acc
  ELSE LET sum == OwnSumFrom(d, position, 1, Zero)
       IN  OwnTermsFrom(d, position + 1,
             IF RGt(sum, Zero) THEN Append(acc, sum) ELSE acc)

\* C18: with max_len carried over from the documents before, every document
\* evaluate has summed contributes exactly the log terms of its own positions
\* with a strictly positive particle sum; when a document is about to be
\* summed every particle's vector has the document's length, so the positions
\* from the document's length up to max_len break at the first particle, sum
\* to 0 and add nothing; the total is the sequence of the documents' own
\* contributions.
PerDocumentIndependence ==
  /\ \A d \in 1 .. Len(ev.total_log_likelihood) :
       ev.total_log_likelihood[d] = OwnTermsFrom(d, 0, <<>>)
  /\ (ev.pc = "particles" /\ ev.particle >= ev.n_particles) =>
       /\ ev.max_len >= Size(ev.types[ev.i])
       /\ \A particle \in DOMAIN ev.particle_probabilities :
            Size(ev.particle_probabilities[particle]) = Size(ev.types[ev.i])
       /\ \A position \in Size(ev.types[ev.i]) .. ev.max_len - 1 :
            PositionSum(ev.particle_probabilities, position) = Zero

\* C18 witness: evaluate is done with two particles on a corpus whose first
\* document is the longest and scored at every position and whose second has
\* one token, summed under the max_len the first one left
PerDocumentIndependenceWitness ==
  /\ ev.pc = "done"
  /\ ev.n_particles = 2
  /\ Size(ev.types) = 2
  /\ ev.types[0] = Vec(MaxDocLen, 0)
  /\ ev.types[1] = Vec(1, 0)
  /\ ev.max_len = MaxDocLen
  /\ MaxDocLen > 1
  /\ Len(ev.total_log_likelihood) = 2
  /\ Len(ev.total_log_likelihood[1]) = MaxDocLen
  /\ Len(ev.total_log_likelihood[2]) = 1

====
